---- MODULE Spec2Model ----
(***************************************************************************)
(* FIX-Engine: the FIXValidator codec (FIXValidator_Testing.py) and the    *)
(* delimiter normaliser convert_fix_delimiter (checkMsgType.py).           *)
(*                                                                         *)
(* A Python str is a sequence of characters; a character is a one-symbol   *)
(* string, with "SOH" standing for chr(1) and "TAB" for chr(9).  Ord gives *)
(* the character codes the checksum sums.  A Python dict with int keys is  *)
(* a function whose domain is the set of keys.                             *)
(***************************************************************************)
EXTENDS Integers, Sequences, FiniteSets, TLC

VARIABLES
    default_version,  \* self.default_version
    delimiter,        \* self.delimiter
    last_error,       \* self.last_error
    wire,             \* the message text last built or received
    origin,           \* "none", "built" (by create_message), "input" (a text),
                      \* "nothing" (None in place of a text), "raw", "converted"
    call,             \* the arguments of the create_message call that built wire
    op,               \* the operation last applied to wire
    parsed,           \* what parse_message returned for wire
    result,           \* what validate_message returned for wire
    declared,         \* the current_delimiter argument of convert_fix_delimiter
    converted         \* what convert_fix_delimiter returned or raised for wire

vars == <<default_version, delimiter, last_error, wire, origin, call, op,
          parsed, result, declared, converted>>

-----------------------------------------------------------------------------
(* Characters and Python's string primitives.                              *)

Ord ==
    ("SOH" :> 1) @@ ("TAB" :> 9) @@ (" " :> 32) @@ ("#" :> 35) @@ ("+" :> 43) @@ ("," :> 44) @@
    ("-" :> 45) @@ ("." :> 46) @@ ("0" :> 48) @@ ("1" :> 49) @@ ("2" :> 50) @@ ("3" :> 51) @@
    ("4" :> 52) @@ ("5" :> 53) @@ ("6" :> 54) @@ ("7" :> 55) @@ ("8" :> 56) @@ ("9" :> 57) @@
    (":" :> 58) @@ (";" :> 59) @@ ("=" :> 61) @@ ("A" :> 65) @@ ("B" :> 66) @@ ("C" :> 67) @@
    ("D" :> 68) @@ ("E" :> 69) @@ ("F" :> 70) @@ ("G" :> 71) @@ ("H" :> 72) @@ ("I" :> 73) @@
    ("J" :> 74) @@ ("K" :> 75) @@ ("L" :> 76) @@ ("M" :> 77) @@ ("N" :> 78) @@ ("O" :> 79) @@
    ("P" :> 80) @@ ("Q" :> 81) @@ ("R" :> 82) @@ ("S" :> 83) @@ ("T" :> 84) @@ ("U" :> 85) @@
    ("V" :> 86) @@ ("W" :> 87) @@ ("X" :> 88) @@ ("Y" :> 89) @@ ("Z" :> 90) @@ ("^" :> 94) @@
    ("_" :> 95) @@ ("a" :> 97) @@ ("b" :> 98) @@ ("c" :> 99) @@ ("d" :> 100) @@ ("e" :> 101) @@
    ("f" :> 102) @@ ("g" :> 103) @@ ("h" :> 104) @@ ("i" :> 105) @@ ("j" :> 106) @@ ("k" :> 107) @@
    ("l" :> 108) @@ ("m" :> 109) @@ ("n" :> 110) @@ ("o" :> 111) @@ ("p" :> 112) @@ ("q" :> 113) @@
    ("r" :> 114) @@ ("s" :> 115) @@ ("t" :> 116) @@ ("u" :> 117) @@ ("v" :> 118) @@ ("w" :> 119) @@
    ("x" :> 120) @@ ("y" :> 121) @@ ("z" :> 122) @@ ("|" :> 124) @@ ("~" :> 126)

DigitValue ==
    ("0" :> 0) @@ ("1" :> 1) @@ ("2" :> 2) @@ ("3" :> 3) @@ ("4" :> 4) @@
    ("5" :> 5) @@ ("6" :> 6) @@ ("7" :> 7) @@ ("8" :> 8) @@ ("9" :> 9)

Digits == DOMAIN DigitValue

DigitChar == <<"0", "1", "2", "3", "4", "5", "6", "7", "8", "9">>

\* the characters str.strip() and int() treat as white space
Whitespace == {" ", "TAB"}

\* the indices of s holding character c, ascending
Positions(s, c) == SelectSeq([i \in 1..Len(s) |-> i], LAMBDA i : s[i] = c)

\* c in s
Contains(s, c) == \E i \in 1..Len(s) : s[i] = c

\* s.find(c): the 0-based index of the first c, or -1
Find(s, c) ==
    LET P == Positions(s, c)
    IN  IF Len(P) = 0 THEN -1 ELSE P[1] - 1

\* a variant of Replace that replaces the first occurrence only:
\* s.replace(a, b, 1)
Replace_first(s, a, b) ==
    [i \in 1..Len(s) |-> IF s[i] = a /\ Find(s, a) = i - 1 THEN b ELSE s[i]]

\* s.replace(a, b) for one-character a and b
Replace(s, a, b) == [i \in 1..Len(s) |-> IF s[i] = a THEN b ELSE s[i]]

\* s.split(c): the pieces between the occurrences of c, at least one piece
Split(s, c) ==
    LET P == <<0>> \o Positions(s, c) \o <<Len(s) + 1>>
    IN  [k \in 1..(Len(P) - 1) |-> SubSeq(s, P[k] + 1, P[k + 1] - 1)]

RECURSIVE Join(_, _)
\* sep.join(parts)
Join(parts, sep) ==
    IF Len(parts) = 0 THEN <<>>
    ELSE IF Len(parts) = 1 THEN parts[1]
    ELSE parts[1] \o <<sep>> \o Join(Tail(parts), sep)

\* s.strip(): s without its leading and trailing white space
Strip(s) ==
    LET keep == {i \in 1..Len(s) : s[i] \notin Whitespace}
    IN  IF keep = {} THEN <<>>
        ELSE SubSeq(s, CHOOSE i \in keep : \A j \in keep : i <= j,
                       CHOOSE i \in keep : \A j \in keep : i >= j)

RECURSIVE NatToStr(_)
\* the decimal digits of a natural number
NatToStr(n) ==
    IF n < 10 THEN <<DigitChar[n + 1]>>
    ELSE NatToStr(n \div 10) \o <<DigitChar[(n % 10) + 1]>>

\* str(n), as in f"{n}"
IntToStr(n) == IF n < 0 THEN <<"-">> \o NatToStr(-n) ELSE NatToStr(n)

RECURSIVE ZeroPad(_, _)
\* s padded on the left with "0" to width w, as in f"{n:03d}" and strftime
ZeroPad(s, w) == IF Len(s) >= w THEN s ELSE ZeroPad(<<"0">> \o s, w)

RECURSIVE DigitsToNat(_)
\* the value of a string of decimal digits
DigitsToNat(s) ==
    IF Len(s) = 0 THEN 0
    ELSE 10 * DigitsToNat(SubSeq(s, 1, Len(s) - 1)) + DigitValue[s[Len(s)]]

\* int(s) accepts: white space around, one optional sign, then decimal
\* digits in which single underscores may separate digits.
IntLiteralOk(s) ==
    LET t == Strip(s)
        u == IF Len(t) > 0 /\ t[1] \in {"+", "-"} THEN Tail(t) ELSE t
    IN  /\ Len(u) > 0
        /\ \A i \in 1..Len(u) : u[i] \in Digits \cup {"_"}
        /\ u[1] # "_" /\ u[Len(u)] # "_"
        /\ \A i \in 1..(Len(u) - 1) : ~(u[i] = "_" /\ u[i + 1] = "_")

\* int(s) for a string int() accepts
IntValue(s) ==
    LET t == Strip(s)
        neg == Len(t) > 0 /\ t[1] = "-"
        u == IF Len(t) > 0 /\ t[1] \in {"+", "-"} THEN Tail(t) ELSE t
        n == DigitsToNat(SelectSeq(u, LAMBDA c : c # "_"))
    IN  IF neg THEN -n ELSE n

RECURSIVE SumOrdTo(_, _)
\* the sum of the codes of the first n characters of s
SumOrdTo(s, n) == IF n = 0 THEN 0 ELSE Ord[s[n]] + SumOrdTo(s, n - 1)

\* sum(ord(c) for c in s)
SumOrd(s) == SumOrdTo(s, Len(s))

RECURSIVE SortedSeq(_)
\* sorted(S) for a set of integers
SortedSeq(S) ==
    IF S = {} THEN <<>>
    ELSE LET m == CHOOSE x \in S : \A y \in S : x <= y
         IN  <<m>> \o SortedSeq(S \ {m})

-----------------------------------------------------------------------------
(* The class constants of FIXValidator.                                    *)

SOH == "SOH"
SOH_PRINTABLE == "|"

TAG_BEGIN_STRING == 8
TAG_BODY_LENGTH == 9
TAG_MSG_TYPE == 35
TAG_SENDER_COMP_ID == 49
TAG_TARGET_COMP_ID == 56
TAG_MSG_SEQ_NUM == 34
TAG_SENDING_TIME == 52
TAG_CHECKSUM == 10

\* the codes of MSG_TYPES (its keys) with their names
MSG_TYPES ==
    (<<"A">> :> "Logon") @@ (<<"0">> :> "Heartbeat") @@ (<<"1">> :> "Test Request") @@
    (<<"2">> :> "Resend Request") @@ (<<"3">> :> "Reject") @@
    (<<"4">> :> "Sequence Reset") @@ (<<"5">> :> "Logout") @@
    (<<"D">> :> "New Order - Single") @@ (<<"G">> :> "Order Cancel/Replace Request") @@
    (<<"F">> :> "Order Cancel Request") @@ (<<"8">> :> "Execution Report") @@
    (<<"9">> :> "Order Cancel Reject") @@ (<<"A", "E">> :> "Trade Capture Report") @@
    (<<"j">> :> "Business Message Reject")

REQUIRED_TAGS ==
    (<<"D">> :> {TAG_MSG_TYPE, TAG_SENDER_COMP_ID, TAG_TARGET_COMP_ID, TAG_MSG_SEQ_NUM,
                 TAG_SENDING_TIME, 11, 21, 55, 54, 60, 40}) @@
    (<<"8">> :> {TAG_MSG_TYPE, TAG_SENDER_COMP_ID, TAG_TARGET_COMP_ID, TAG_MSG_SEQ_NUM,
                 TAG_SENDING_TIME, 37, 17, 39, 150, 40}) @@
    (<<"A">> :> {TAG_MSG_TYPE, TAG_SENDER_COMP_ID, TAG_TARGET_COMP_ID, TAG_MSG_SEQ_NUM,
                 TAG_SENDING_TIME, 98, 108})

FIX_VERSIONS ==
    ("FIX.4.2" :> <<"F", "I", "X", ".", "4", ".", "2">>) @@
    ("FIX.4.4" :> <<"F", "I", "X", ".", "4", ".", "4">>) @@
    ("FIX.5.0" :> <<"F", "I", "X", "T", ".", "1", ".", "1">>)

-----------------------------------------------------------------------------
(* Python's None and the optional values of the result tuples.             *)

PyNone == [is_none |-> TRUE, value |-> <<>>]

Some(v) == [is_none |-> FALSE, value |-> v]

\* how a call ends: it returns a value or raises an exception
Returned(text) == [raised |-> "", value |-> text]

Raised(exception) == [raised |-> exception, value |-> <<>>]

-----------------------------------------------------------------------------
(* FIXValidator.create_message.  self is [default_version, delimiter];     *)
(* now is the reading of datetime.datetime.utcnow().                       *)

\* utcnow().strftime('%Y%m%d-%H:%M:%S.%f')[:-3]
current_time(now) ==
    LET full == ZeroPad(NatToStr(now.year), 4) \o ZeroPad(NatToStr(now.month), 2) \o
                ZeroPad(NatToStr(now.day), 2) \o <<"-">> \o
                ZeroPad(NatToStr(now.hour), 2) \o <<":">> \o
                ZeroPad(NatToStr(now.minute), 2) \o <<":">> \o
                ZeroPad(NatToStr(now.second), 2) \o <<".">> \o
                ZeroPad(NatToStr(now.microsecond), 6)
    IN  SubSeq(full, 1, Len(full) - 3)

\* d with key k set to v when k is not yet a key of d
SetDefault(d, k, v) == IF k \in DOMAIN d THEN d ELSE d @@ (k :> v)

\* a variant of combined_fields that does not fill in MsgType
combined_fields_without_type(self, msg_type, fields, now) ==
    SetDefault(
        SetDefault(fields, TAG_BEGIN_STRING, FIX_VERSIONS[self.default_version]),
        TAG_SENDING_TIME, current_time(now))

\* fields.copy() with MsgType, BeginString and SendingTime filled in if absent
combined_fields(self, msg_type, fields, now) ==
    SetDefault(
        SetDefault(
            SetDefault(fields, TAG_MSG_TYPE, msg_type),
            TAG_BEGIN_STRING, FIX_VERSIONS[self.default_version]),
        TAG_SENDING_TIME, current_time(now))

\* a variant of part_tags that lets the caller's tags 9 and 10 through
part_tags_unfiltered(combined) == SortedSeq(DOMAIN combined)

\* the tags the loop over sorted(combined_fields.items()) appends, in order
part_tags(combined) ==
    SortedSeq({tag \in DOMAIN combined : tag # TAG_BODY_LENGTH /\ tag # TAG_CHECKSUM})

\* msg_parts: f"{tag}={value}" for every tag but BodyLength and CheckSum
msg_parts(combined) ==
    LET tags == part_tags(combined)
    IN  [i \in 1..Len(tags) |-> IntToStr(tags[i]) \o <<"=">> \o combined[tags[i]]]

\* body_start_pos = msg_without_length.find(self.delimiter) + 1
body_start_pos(msg_without_length, delim) == Find(msg_without_length, delim) + 1

\* body_length = len(msg_without_length) - body_start_pos
body_length(msg_without_length, delim) ==
    Len(msg_without_length) - body_start_pos(msg_without_length, delim)

\* msg_with_length: f"9={body_length}{delimiter}" inserted at body_start_pos
msg_with_length(msg_without_length, delim) ==
    LET pos == body_start_pos(msg_without_length, delim)
        body_length_str == <<"9", "=">> \o
                           IntToStr(body_length(msg_without_length, delim)) \o <<delim>>
    IN  SubSeq(msg_without_length, 1, pos) \o body_length_str \o
        SubSeq(msg_without_length, pos + 1, Len(msg_without_length))

\* a variant of checksum that sums msg_with_length as it is displayed
checksum_as_displayed(with_length, delim) == SumOrd(with_length) % 256

\* checksum = sum(ord(c) for c in checksum_msg) % 256, where checksum_msg is
\* msg_with_length with the printable delimiter turned into SOH
checksum(with_length, delim) ==
    LET checksum_msg == IF delim = SOH_PRINTABLE
                        THEN Replace(with_length, SOH_PRINTABLE, SOH)
                        ELSE with_length
    IN  SumOrd(checksum_msg) % 256

\* checksum_str = f"{self.delimiter}{self.TAG_CHECKSUM}={checksum:03d}"
checksum_str(with_length, delim) ==
    <<delim>> \o IntToStr(TAG_CHECKSUM) \o <<"=">> \o
    ZeroPad(NatToStr(checksum(with_length, delim)), 3)

create_message(self, msg_type, fields, now) ==
    LET combined == combined_fields(self, msg_type, fields, now)
        msg_without_length == Join(msg_parts(combined), self.delimiter)
        with_length == msg_with_length(msg_without_length, self.delimiter)
    IN  with_length \o checksum_str(with_length, self.delimiter)

\* a variant of fields_after_create for combined_fields = fields, without
\* the copy: the caller's mapping gets the header tags
fields_after_create_no_copy(self, msg_type, fields, now) ==
    combined_fields(self, msg_type, fields, now)

\* the caller's fields mapping after the call: combined_fields is
\* fields.copy(), and nothing else in the body names fields
fields_after_create(self, msg_type, fields, now) == fields

-----------------------------------------------------------------------------
(* FIXValidator.parse_message.                                             *)

\* the message with the other delimiter turned into self.delimiter
normalize_delimiter(self, message) ==
    IF self.delimiter = SOH_PRINTABLE /\ Contains(message, SOH)
    THEN Replace(message, SOH, SOH_PRINTABLE)
    ELSE IF self.delimiter = SOH /\ Contains(message, SOH_PRINTABLE)
    THEN Replace(message, SOH_PRINTABLE, SOH)
    ELSE message

\* a variant of split_first_equals that splits at every "=": pair.split('=')
split_every_equals(pair) == Split(pair, "=")

\* pair.split('=', 1)
split_first_equals(pair) ==
    LET k == Find(pair, "=")
    IN  IF k = -1 THEN <<pair>>
        ELSE <<SubSeq(pair, 1, k), SubSeq(pair, k + 2, Len(pair))>>

\* a variant of parse_pair in which a tag already present keeps its value
parse_pair_keeps_first(tag_value_dict, pair) ==
    IF Strip(pair) = <<>> THEN tag_value_dict
    ELSE LET parts == split_first_equals(pair)
         IN  IF Len(parts) # 2 THEN tag_value_dict
             ELSE IF IntLiteralOk(parts[1])
             THEN tag_value_dict @@ (IntValue(parts[1]) :> parts[2])
             ELSE tag_value_dict

\* one turn of the loop over tag_value_pairs: tag_value_dict after pair
parse_pair(tag_value_dict, pair) ==
    IF Strip(pair) = <<>> THEN tag_value_dict
    ELSE LET parts == split_first_equals(pair)
         IN  IF Len(parts) # 2 THEN tag_value_dict
             ELSE IF IntLiteralOk(parts[1])
             THEN (IntValue(parts[1]) :> parts[2]) @@ tag_value_dict
             ELSE tag_value_dict

RECURSIVE parse_pairs_until_invalid(_, _)
\* a variant of parse_pairs that leaves the loop at the first pair without
\* "=" (break in place of continue)
parse_pairs_until_invalid(tag_value_pairs, tag_value_dict) ==
    IF Len(tag_value_pairs) = 0 THEN tag_value_dict
    ELSE IF /\ Strip(Head(tag_value_pairs)) # <<>>
            /\ Len(split_first_equals(Head(tag_value_pairs))) # 2
    THEN tag_value_dict
    ELSE parse_pairs_until_invalid(Tail(tag_value_pairs),
                                   parse_pair(tag_value_dict, Head(tag_value_pairs)))

RECURSIVE parse_pairs(_, _)
\* the loop over tag_value_pairs
parse_pairs(tag_value_pairs, tag_value_dict) ==
    IF Len(tag_value_pairs) = 0 THEN tag_value_dict
    ELSE parse_pairs(Tail(tag_value_pairs),
                     parse_pair(tag_value_dict, Head(tag_value_pairs)))

parse_message(self, message) ==
    parse_pairs(Split(normalize_delimiter(self, message), self.delimiter), <<>>)

\* the exception parse_message raises when called with argument, a text or
\* None, or "": "in message" at lines 122 and 124 raises TypeError on None
parse_raises(self, argument) == IF argument.is_none THEN "TypeError" ELSE ""

\* parse_message called with argument, a text or None
parse_outcome(self, argument) ==
    IF parse_raises(self, argument) # ""
    THEN Raised(parse_raises(self, argument))
    ELSE Returned(parse_message(self, argument.value))

-----------------------------------------------------------------------------
(* FIXValidator.validate_message.  The result is the tuple (is_valid,      *)
(* error_message, tag_value_dict).  An error message is held as its        *)
(* f-string template with the parts interpolated into it: msg_type (the    *)
(* value of tag 35), name (MSG_TYPES[msg_type]) and tags (the tags the     *)
(* message lists, in the order it lists them).                             *)

ErrorMessage(template, msg_type, name, tags) ==
    Some([template |-> template, msg_type |-> msg_type, name |-> name, tags |-> tags])

\* every order in which iterating the set S can yield its elements
IterationOrders(S) ==
    {q \in [1..Cardinality(S) -> S] : \A i, j \in DOMAIN q : q[i] = q[j] => i = j}

\* a variant of missing_tags with the operands of the difference swapped
missing_tags_swapped(msg_type, tag_value_dict) ==
    IF msg_type \in DOMAIN REQUIRED_TAGS
    THEN DOMAIN tag_value_dict \ REQUIRED_TAGS[msg_type]
    ELSE {}

\* missing_tags = self.REQUIRED_TAGS[msg_type] - set(tag_value_dict.keys())
missing_tags(msg_type, tag_value_dict) ==
    IF msg_type \in DOMAIN REQUIRED_TAGS
    THEN REQUIRED_TAGS[msg_type] \ DOMAIN tag_value_dict
    ELSE {}

\* the missing tags of the message, when validate_message gets as far as
\* computing them (the set is empty otherwise)
missing_tags_of(self, message) ==
    LET tag_value_dict == parse_message(self, message)
    IN  IF TAG_MSG_TYPE \in DOMAIN tag_value_dict
           /\ tag_value_dict[TAG_MSG_TYPE] \in DOMAIN MSG_TYPES
        THEN missing_tags(tag_value_dict[TAG_MSG_TYPE], tag_value_dict)
        ELSE {}

\* The body of the try block for a str.  iteration is the order in which
\* "for tag in missing_tags" yields the set: Python leaves the iteration
\* order of a set unspecified.
validate_message(self, message, iteration) ==
    LET tag_value_dict == parse_message(self, message)
    IN  IF DOMAIN tag_value_dict = {}
        THEN [is_valid |-> FALSE,
              error_message |-> ErrorMessage("Empty or invalid message format",
                                             <<>>, "", <<>>),
              tag_value_dict |-> PyNone]
        ELSE IF TAG_MSG_TYPE \notin DOMAIN tag_value_dict
        THEN [is_valid |-> FALSE,
              error_message |-> ErrorMessage("Missing required tag: {} (MsgType)",
                                             <<>>, "", <<TAG_MSG_TYPE>>),
              tag_value_dict |-> PyNone]
        ELSE LET msg_type == tag_value_dict[TAG_MSG_TYPE]
             IN  IF msg_type \notin DOMAIN MSG_TYPES
                 THEN [is_valid |-> FALSE,
                       error_message |-> ErrorMessage("Unknown message type: {}",
                                                      msg_type, "", <<>>),
                       tag_value_dict |-> Some(tag_value_dict)]
                 ELSE IF missing_tags(msg_type, tag_value_dict) # {}
                 THEN [is_valid |-> FALSE,
                       error_message |-> ErrorMessage("Missing required tags for {}: {}",
                                                      msg_type, MSG_TYPES[msg_type],
                                                      iteration),
                       tag_value_dict |-> Some(tag_value_dict)]
                 ELSE [is_valid |-> TRUE,
                       error_message |-> PyNone,
                       tag_value_dict |-> Some(tag_value_dict)]

\* a variant of validate_outcome without the except clause
validate_outcome_uncaught(self, argument, iteration) ==
    IF parse_raises(self, argument) # ""
    THEN Raised(parse_raises(self, argument))
    ELSE Returned(validate_message(self, argument.value, iteration))

\* validate_message called with argument, a text or None: what parse_message
\* raises is caught by "except Exception" and reported in the result, the
\* exception standing in the place of the name
validate_outcome(self, argument, iteration) ==
    IF parse_raises(self, argument) # ""
    THEN Returned([is_valid |-> FALSE,
                   error_message |-> ErrorMessage("Validation error: {}", <<>>,
                                                  parse_raises(self, argument), <<>>),
                   tag_value_dict |-> PyNone])
    ELSE Returned(validate_message(self, argument.value, iteration))

-----------------------------------------------------------------------------
(* checkMsgType.convert_fix_delimiter.  current_delimiter is PyNone or     *)
(* Some(character).                                                        *)

SOH_CHAR == "SOH"

\* a variant of delimiters that tries ^ before |
delimiters_caret_first == <<"^", "|", "~", ",", ";", "TAB">>

\* delimiters = ['|', '^', '~', ',', ';', '\t']
delimiters == <<"|", "^", "~", ",", ";", "TAB">>

\* re.search('8=FIX\\.\\d\\.\\d%s9=\\d+' % re.escape(delim), fix_message)
header_pattern_found(fix_message, delim) ==
    \E i \in 1..(Len(fix_message) - 12) :
        /\ SubSeq(fix_message, i, i + 5) = <<"8", "=", "F", "I", "X", ".">>
        /\ fix_message[i + 6] \in Digits
        /\ fix_message[i + 7] = "."
        /\ fix_message[i + 8] \in Digits
        /\ fix_message[i + 9] = delim
        /\ fix_message[i + 10] = "9"
        /\ fix_message[i + 11] = "="
        /\ fix_message[i + 12] \in Digits

\* the loop over delimiters: the first whose pattern is found, or None
detect_delimiter(fix_message) ==
    LET found == {k \in 1..Len(delimiters) :
                     header_pattern_found(fix_message, delimiters[k])}
    IN  IF found = {} THEN PyNone
        ELSE Some(delimiters[CHOOSE k \in found : \A j \in found : k <= j])

\* a variant of convert_fix_delimiter that runs the detection whatever
\* current_delimiter is and falls back on current_delimiter
convert_fix_delimiter_redetects(fix_message, current_delimiter) ==
    LET found == detect_delimiter(fix_message)
        detected == IF found.is_none THEN current_delimiter ELSE found
    IN  IF detected.is_none
        THEN IF Contains(fix_message, SOH_CHAR)
             THEN Returned(fix_message)
             ELSE Raised("ValueError")
        ELSE IF detected.value = SOH_CHAR
        THEN Returned(fix_message)
        ELSE Returned(Replace(fix_message, detected.value, SOH_CHAR))

\* a variant of convert_fix_delimiter that does not look for SOH when the
\* detection finds nothing
convert_fix_delimiter_unchecked(fix_message, current_delimiter) ==
    LET detected == IF current_delimiter.is_none
                    THEN detect_delimiter(fix_message)
                    ELSE current_delimiter
    IN  IF detected.is_none
        THEN Raised("ValueError")
        ELSE IF detected.value = SOH_CHAR
        THEN Returned(fix_message)
        ELSE Returned(Replace(fix_message, detected.value, SOH_CHAR))

convert_fix_delimiter(fix_message, current_delimiter) ==
    LET detected == IF current_delimiter.is_none
                    THEN detect_delimiter(fix_message)
                    ELSE current_delimiter
    IN  IF detected.is_none
        THEN IF Contains(fix_message, SOH_CHAR)
             THEN Returned(fix_message)
             ELSE Raised("ValueError")
        ELSE IF detected.value = SOH_CHAR
        THEN Returned(fix_message)
        ELSE Returned(Replace(fix_message, detected.value, SOH_CHAR))

-----------------------------------------------------------------------------
(* The inputs the callers supply, drawn from bounded sets.                 *)

MaxFields == 1      \* entries of the fields mapping beyond the required ones
MaxMissing == 2     \* required tags a received message may lack
MaxFragments == 2   \* fragments of a received free-form message

\* tags a caller may put in fields: below BeginString, the header tags, the
\* two recomputed tags, and an ordinary body tag
TagPool == {1, 8, 9, 10, 35, 52, 55}

\* values a caller may supply: with "=", with the printable delimiter (and
\* the texts of two fields after it), with SOH
ValuePool ==
    { <<"u", "=", "v">>, <<"Q", "|", "9", "=", "5", "|", "3", "5", "=", "Z">>,
      <<"Q", "SOH", "R">> }

\* msg_type arguments: without required tags, with required tags, unknown
\* and holding a delimiter character
MsgTypePool == { <<"0">>, <<"A">>, <<"Q", "|", "R">> }

\* readings of the clock
ClockPool ==
    { [year |-> 2023, month |-> 1, day |-> 1, hour |-> 0, minute |-> 0,
       second |-> 0, microsecond |-> 0],
      [year |-> 2024, month |-> 12, day |-> 31, hour |-> 23, minute |-> 59,
       second |-> 59, microsecond |-> 999999] }

\* the mappings over at most MaxFields tags of TagPool
FieldMaps ==
    UNION { [T -> ValuePool] : T \in {U \in SUBSET TagPool : Cardinality(U) <= MaxFields} }

\* the required tags of msg_type that create_message does not fill in itself,
\* as a caller building that type supplies them
RequiredBase(msg_type) ==
    IF msg_type \in DOMAIN REQUIRED_TAGS
    THEN [tag \in REQUIRED_TAGS[msg_type] \ {TAG_MSG_TYPE, TAG_SENDING_TIME} |-> <<"1">>]
    ELSE <<>>

\* the (msg_type, fields) arguments of create_message
CreateInputs ==
    { [msg_type |-> t, fields |-> f @@ RequiredBase(t)] : t \in MsgTypePool, f \in FieldMaps }

Reverse(q) == [i \in 1..Len(q) |-> q[Len(q) + 1 - i]]

\* a message of type t carrying BeginString and the required tags of t but
\* those of lacking, in ascending or descending tag order, delimited by delim
RequiredMessage(t, lacking, descending, delim) ==
    LET tags == SortedSeq((REQUIRED_TAGS[t] \cup {TAG_BEGIN_STRING}) \ lacking)
        order == IF descending THEN Reverse(tags) ELSE tags
        value(tag) == IF tag = TAG_MSG_TYPE THEN t
                      ELSE IF tag = TAG_BEGIN_STRING THEN FIX_VERSIONS["FIX.4.4"]
                      ELSE <<"1">>
    IN  Join([i \in 1..Len(order) |-> IntToStr(order[i]) \o <<"=">> \o value(order[i])],
             delim)

\* required tags a received message may lack
LackingPool == {49, 56, 34, 11, 98}

RequiredInputs ==
    { RequiredMessage(t, lacking, descending, delim) :
        t \in { <<"D">>, <<"A">> },
        lacking \in { L \in SUBSET LackingPool : Cardinality(L) <= MaxMissing },
        descending \in BOOLEAN,
        delim \in {SOH, SOH_PRINTABLE} }

\* fragments of free-form messages: well formed, typed, malformed, blank
FragmentPool ==
    { <<"3", "5", "=", "0">>, <<"3", "5", "=", "Z">>, <<"3", "5", "=", "A", "E">>,
      <<"5", "5", "=", "x", "=", "y">>, <<"5", "5", "=", "z">>,
      <<"a", "b", "c">>, <<"x", "=", "1">>, <<" ">>, <<>> }

FragmentLists ==
    UNION { [1..n -> FragmentPool] : n \in 0..MaxFragments }

\* the texts a caller hands to parse_message and validate_message
InputMessages(delim) ==
    RequiredInputs \cup { Join(q, delim) : q \in FragmentLists }

MaxSegments == 2    \* header-bearing segments of a raw message

\* the characters that may separate the fields of a raw message: the six
\* candidates of the detection, SOH, and one that is no candidate
RawDelimiterPool == {"|", "^", "~", ",", ";", "TAB", "SOH", "#"}

\* a stretch of a raw message: a header whose fields are separated by delim,
\* well formed or not, and one more field
RawSegment(delim, kind) ==
    LET version == IF kind = "no_dot" THEN <<"4", "2">> ELSE <<"4", ".", "2">>
        length == IF kind = "no_length" THEN <<"x">> ELSE <<"1", "2">>
    IN  <<"8", "=", "F", "I", "X", ".">> \o version \o <<delim>> \o
        <<"9", "=">> \o length \o <<delim>> \o <<"3", "5", "=", "D">> \o <<delim>>

RawSegments ==
    { RawSegment(delim, kind) :
        delim \in RawDelimiterPool, kind \in {"header", "no_dot", "no_length"} }

RECURSIVE Concat(_)
Concat(q) == IF Len(q) = 0 THEN <<>> ELSE Head(q) \o Concat(Tail(q))

\* the texts a caller hands to convert_fix_delimiter
RawMessages ==
    { Concat(q) : q \in UNION { [1..n -> RawSegments] : n \in 0..MaxSegments } }

\* the current_delimiter arguments: None, or a declared character (SOH, two
\* of the candidates, and a character that is no candidate)
DeclaredPool == {PyNone, Some("SOH"), Some("|"), Some("^"), Some("=")}

MaxPairs == 2       \* fragments of a message handed to the parser

\* what a fragment may hold before its first "=": plain digits, a leading
\* zero, signs, zero, white space around, an underscore, a letter, nothing
TagTextPool ==
    { <<"5">>, <<"0", "5">>, <<"+", "5">>, <<"-", "1">>, <<"0">>,
      <<" ", "6", " ">>, <<"1", "_", "0">>, <<"5", "x">>, <<>> }

\* what a fragment may hold after its first "=": plain, with another "="
ValueTextPool == { <<"a">>, <<"b", "=", "c">> }

\* the fragments of a message handed to the parser: tag=value with the tag
\* texts above, and fragments without "="
PairPool ==
    { t \o <<"=">> \o v : t \in TagTextPool, v \in ValueTextPool }
        \cup { <<"a", "b", "c">>, <<" ">>, <<>> }

\* the texts a caller hands to parse_message, delimited by SOH or by "|"
PairMessages ==
    { Join(q, delim) : q \in UNION { [1..n -> PairPool] : n \in 0..MaxPairs },
                       delim \in {SOH, SOH_PRINTABLE} }

-----------------------------------------------------------------------------
(* The state machine of the codec: a validator, the message text in hand   *)
(* and what the last call on it returned.                                  *)

self == [default_version |-> default_version, delimiter |-> delimiter]

\* the message argument of parse_message and validate_message
argument == IF origin = "nothing" THEN PyNone ELSE Some(wire)

NoCall == [msg_type |-> <<>>, fields |-> <<>>, utcnow |-> {}, fields_after |-> <<>>]

NoResult == [is_valid |-> FALSE, error_message |-> PyNone, tag_value_dict |-> PyNone]

NotConverted == [raised |-> "", value |-> <<>>]

\* FIXValidator.__init__ with a supported version
Init ==
    /\ default_version \in DOMAIN FIX_VERSIONS
    /\ delimiter \in {SOH, SOH_PRINTABLE}
    /\ last_error = PyNone
    /\ wire = <<>>
    /\ origin = "none"
    /\ call = NoCall
    /\ op = "init"
    /\ parsed = PyNone
    /\ result = NoResult
    /\ declared = PyNone
    /\ converted = NotConverted

\* a caller with no message in hand builds one:
\* wire = create_message(msg_type, fields)
CreateMessage ==
    /\ origin = "none"
    /\ \E in \in CreateInputs, now \in ClockPool :
        /\ wire' = create_message(self, in.msg_type, in.fields, now)
        /\ call' = [msg_type |-> in.msg_type, fields |-> in.fields, utcnow |-> {now},
                    fields_after |->
                        fields_after_create(self, in.msg_type, in.fields, now)]
    /\ origin' = "built"
    /\ op' = "create_message"
    /\ parsed' = PyNone
    /\ result' = NoResult
    /\ UNCHANGED <<default_version, delimiter, last_error, declared, converted>>

\* a caller with no message in hand is handed a message text
ReceiveMessage ==
    /\ origin = "none"
    /\ \E message \in InputMessages(delimiter) : wire' = message
    /\ origin' = "input"
    /\ call' = NoCall
    /\ op' = "receive"
    /\ parsed' = PyNone
    /\ result' = NoResult
    /\ UNCHANGED <<default_version, delimiter, last_error, declared, converted>>

\* a caller with no message in hand passes None where a text is due
ReceiveNone ==
    /\ origin = "none"
    /\ wire' = <<>>
    /\ origin' = "nothing"
    /\ call' = NoCall
    /\ op' = "receive"
    /\ parsed' = PyNone
    /\ result' = NoResult
    /\ UNCHANGED <<default_version, delimiter, last_error, declared, converted>>

\* parsed = parse_message(wire), or the call raises
ParseMessage ==
    /\ origin # "none"
    /\ LET outcome == parse_outcome(self, argument)
       IN  /\ parsed' = IF outcome.raised = "" THEN Some(outcome.value) ELSE PyNone
           /\ op' = IF outcome.raised = "" THEN "parse_message" ELSE "parse_message_raised"
    /\ result' = NoResult
    /\ UNCHANGED <<default_version, delimiter, last_error, wire, origin, call,
                   declared, converted>>

\* result = validate_message(wire), or the call raises
ValidateMessage ==
    /\ origin # "none"
    /\ \E iteration \in IterationOrders(missing_tags_of(self, wire)) :
           LET outcome == validate_outcome(self, argument, iteration)
           IN  /\ result' = IF outcome.raised = "" THEN outcome.value ELSE NoResult
               /\ op' = IF outcome.raised = "" THEN "validate_message"
                                                ELSE "validate_message_raised"
    /\ parsed' = PyNone
    /\ UNCHANGED <<default_version, delimiter, last_error, wire, origin, call,
                   declared, converted>>

\* the caller is done with the message in hand; the validator lives on
NextMessage ==
    /\ origin # "none"
    /\ wire' = <<>>
    /\ origin' = "none"
    /\ call' = NoCall
    /\ op' = "init"
    /\ parsed' = PyNone
    /\ result' = NoResult
    /\ declared' = PyNone
    /\ converted' = NotConverted
    /\ UNCHANGED <<default_version, delimiter, last_error>>

Next ==
    \/ CreateMessage
    \/ ReceiveMessage
    \/ ReceiveNone
    \/ ParseMessage
    \/ ValidateMessage
    \/ NextMessage

Spec == Init /\ [][Next]_vars

-----------------------------------------------------------------------------
(* The state machine of the normaliser: convert_fix_delimiter is a module  *)
(* function of checkMsgType.py; it uses no validator.                      *)

InitConvert ==
    /\ Init
    /\ default_version = "FIX.4.4"
    /\ delimiter = SOH

\* a caller with no message in hand is handed a raw message text
ReceiveRaw ==
    /\ origin = "none"
    /\ \E message \in RawMessages : wire' = message
    /\ origin' = "raw"
    /\ op' = "receive"
    /\ UNCHANGED <<default_version, delimiter, last_error, call, parsed, result,
                   declared, converted>>

\* converted = convert_fix_delimiter(wire, current_delimiter)
ConvertFixDelimiter ==
    /\ origin = "raw"
    /\ \E current_delimiter \in DeclaredPool :
           /\ declared' = current_delimiter
           /\ converted' = convert_fix_delimiter(wire, current_delimiter)
    /\ op' = "convert_fix_delimiter"
    /\ UNCHANGED <<default_version, delimiter, last_error, wire, origin, call,
                   parsed, result>>

\* the caller normalises the text it got back once more, declaring SOH:
\* converted = convert_fix_delimiter(converted, SOH_CHAR)
ConvertAgain ==
    /\ origin = "raw"
    /\ op = "convert_fix_delimiter"
    /\ converted.raised = ""
    /\ wire' = converted.value
    /\ origin' = "converted"
    /\ declared' = Some(SOH_CHAR)
    /\ converted' = convert_fix_delimiter(converted.value, Some(SOH_CHAR))
    /\ op' = "convert_again"
    /\ UNCHANGED <<default_version, delimiter, last_error, call, parsed, result>>

NextConvert ==
    \/ ReceiveRaw
    \/ ConvertFixDelimiter
    \/ ConvertAgain
    \/ NextMessage

SpecConvert == InitConvert /\ [][NextConvert]_vars

-----------------------------------------------------------------------------
(* The state machine of the parser alone: parse_message on texts whose     *)
(* fragments carry every kind of tag text.                                 *)

InitParse ==
    /\ Init
    /\ default_version = "FIX.4.4"

\* a caller with no message in hand is handed a message text
ReceivePairs ==
    /\ origin = "none"
    /\ \E message \in PairMessages : wire' = message
    /\ origin' = "input"
    /\ op' = "receive"
    /\ UNCHANGED <<default_version, delimiter, last_error, call, parsed, result,
                   declared, converted>>

NextParse ==
    \/ ReceivePairs
    \/ ParseMessage
    \/ NextMessage

SpecParse == InitParse /\ [][NextParse]_vars

-----------------------------------------------------------------------------
(* Properties of create_message and parse_message.                         *)

\* no value of the mapping holds character c
NoValueHolds(fields, c) == \A tag \in DOMAIN fields : ~Contains(fields[tag], c)

\* neither msg_type nor a value of fields of the call holds character c
NoArgumentHolds(c) == NoValueHolds(call.fields, c) /\ ~Contains(call.msg_type, c)

\* the create_message call that built wire has just returned
JustBuilt == origin = "built" /\ op = "create_message"

\* parse_message has just returned for a wire built by create_message
BuiltThenParsed == origin = "built" /\ op = "parse_message"

\* the clock reading of the call that built wire
CallClock == CHOOSE now \in call.utcnow : TRUE

\* the fields of wire as its delimiter separates them
WireFields == Split(wire, delimiter)

\* the text before the first "=" of a field, and the text after it
TagText(field) ==
    IF Find(field, "=") = -1 THEN field ELSE SubSeq(field, 1, Find(field, "="))

ValueText(field) ==
    IF Find(field, "=") = -1 THEN <<>>
    ELSE SubSeq(field, Find(field, "=") + 2, Len(field))

AllDigits(s) == Len(s) > 0 /\ \A i \in 1..Len(s) : s[i] \in Digits

\* the indices of the fields of wire whose tag text is t
FieldsTagged(t) == {i \in 1..Len(WireFields) : TagText(WireFields[i]) = t}

RECURSIVE CharsOfFields(_, _, _)
\* the characters of fields from..to of q, each with the delimiter ending it
CharsOfFields(q, from, to) ==
    IF from > to THEN 0 ELSE Len(q[from]) + 1 + CharsOfFields(q, from + 1, to)

\* C1 as claimed: whenever no value of fields holds SOH, parsing the built
\* message gives back every (tag, value) of fields, and tags 35, 8 and 52.
C1_RoundTripAsClaimed ==
    (BuiltThenParsed /\ NoValueHolds(call.fields, SOH)) =>
        /\ \A tag \in DOMAIN call.fields :
               tag \in DOMAIN parsed.value /\ parsed.value[tag] = call.fields[tag]
        /\ {TAG_MSG_TYPE, TAG_BEGIN_STRING, TAG_SENDING_TIME} \subseteq DOMAIN parsed.value

\* C1 amended: whenever neither msg_type nor a value of fields holds SOH or
\* "|", parsing the built message gives back every (tag, value) of fields
\* but those of tags 9 and 10, and tags 35, 8 and 52 with the inserted
\* msg_type, begin string and time where the caller gave none.
C1_RoundTrip ==
    (BuiltThenParsed /\ NoArgumentHolds(SOH) /\ NoArgumentHolds(SOH_PRINTABLE)) =>
        /\ \A tag \in DOMAIN call.fields \ {TAG_BODY_LENGTH, TAG_CHECKSUM} :
               tag \in DOMAIN parsed.value /\ parsed.value[tag] = call.fields[tag]
        /\ {TAG_MSG_TYPE, TAG_BEGIN_STRING, TAG_SENDING_TIME} \subseteq DOMAIN parsed.value
        /\ TAG_MSG_TYPE \notin DOMAIN call.fields =>
               parsed.value[TAG_MSG_TYPE] = call.msg_type
        /\ TAG_BEGIN_STRING \notin DOMAIN call.fields =>
               parsed.value[TAG_BEGIN_STRING] = FIX_VERSIONS[default_version]
        /\ TAG_SENDING_TIME \notin DOMAIN call.fields =>
               parsed.value[TAG_SENDING_TIME] = current_time(CallClock)

\* C1 witness: a built message whose fields hold a value with "=" under an
\* ordinary tag and no delimiter character has been parsed.
C1_Witness ==
    /\ BuiltThenParsed
    /\ NoArgumentHolds(SOH) /\ NoArgumentHolds(SOH_PRINTABLE)
    /\ 55 \in DOMAIN call.fields
    /\ TAG_SENDING_TIME \notin DOMAIN call.fields
    /\ parsed.value[55] = <<"u", "=", "v">>

\* C2 as claimed: the value of the body-length field is the number of
\* characters after that field's delimiter and before the checksum field,
\* the delimiter ending the last body field included.
C2_BodyLengthAsClaimed ==
    JustBuilt =>
        LET first9 == CHOOSE i \in FieldsTagged(<<"9">>) :
                          \A j \in FieldsTagged(<<"9">>) : i <= j
        IN  /\ FieldsTagged(<<"9">>) # {}
            /\ AllDigits(ValueText(WireFields[first9]))
            /\ DigitsToNat(ValueText(WireFields[first9])) =
                   CharsOfFields(WireFields, first9 + 1, Len(WireFields) - 1)

\* C3 as claimed: the three digits of the checksum field are the sum modulo
\* 256 of the codes of all characters before "10=", the delimiter before it
\* included, every delimiter counted as SOH.
C3_ChecksumAsClaimed ==
    JustBuilt =>
        LET last == WireFields[Len(WireFields)]
            before == SubSeq(wire, 1, Len(wire) - Len(last))
        IN  /\ TagText(last) = <<"1", "0">>
            /\ Len(ValueText(last)) = 3
            /\ AllDigits(ValueText(last))
            /\ DigitsToNat(ValueText(last)) =
                   SumOrd(Replace(before, delimiter, SOH)) % 256

\* C4 as claimed: the message begins with the begin-string field, whose end
\* is the first delimiter of the message, and the body-length field follows.
C4_BeginStringFirstAsClaimed ==
    JustBuilt =>
        /\ WireFields[1] =
               <<"8", "=">> \o (IF TAG_BEGIN_STRING \in DOMAIN call.fields
                                THEN call.fields[TAG_BEGIN_STRING]
                                ELSE FIX_VERSIONS[default_version])
        /\ TagText(WireFields[2]) = <<"9">>

\* the mapping without the body-length and checksum tags
WithoutComputedTags(fields) ==
    [tag \in DOMAIN fields \ {TAG_BODY_LENGTH, TAG_CHECKSUM} |-> fields[tag]]

\* exactly one field tagged 9 and one tagged 10, the latter last and with no
\* delimiter after it, and the message is the one built from fields without
\* the caller's tags 9 and 10
OneBodyLengthOneChecksum ==
    /\ Cardinality(FieldsTagged(<<"9">>)) = 1
    /\ Cardinality(FieldsTagged(<<"1", "0">>)) = 1
    /\ TagText(WireFields[Len(WireFields)]) = <<"1", "0">>
    /\ wire[Len(wire)] # delimiter
    /\ wire = create_message(self, call.msg_type, WithoutComputedTags(call.fields),
                             CallClock)

\* C5 as claimed: whatever fields holds, the built message has exactly one
\* body-length field and one checksum field, with the builder's values, the
\* checksum field last.
C5_OneLengthOneChecksumAsClaimed == JustBuilt => OneBodyLengthOneChecksum

\* C5 amended: the same, whenever neither msg_type nor a value of fields
\* holds the validator's own delimiter character.
C5_OneLengthOneChecksum ==
    (JustBuilt /\ NoArgumentHolds(delimiter)) => OneBodyLengthOneChecksum

\* C5 witness: a message has been built from fields that hold tag 9 and no
\* value with the validator's delimiter.
C5_Witness ==
    /\ JustBuilt
    /\ NoArgumentHolds(delimiter)
    /\ TAG_BODY_LENGTH \in DOMAIN call.fields

-----------------------------------------------------------------------------
(* Properties of validate_message.                                         *)

\* validate_message has just returned for wire
JustValidated == op = "validate_message" /\ origin # "nothing"

\* the mapping parse_message gives for wire
WireMapping == parse_message(self, wire)

\* the template of the failure the result reports
FailedWith(template) ==
    /\ ~result.is_valid
    /\ ~result.error_message.is_none
    /\ result.error_message.value.template = template

\* C6: the checks come in the order empty mapping, tag 35 absent, type
\* unknown, required tags missing, and the first that fails is the one
\* reported; the result is valid, with the parsed mapping, exactly when none
\* fails, so a known type with no required tags is valid once tag 35 is there.
C6_ValidationOrder ==
    JustValidated =>
        LET m == WireMapping
            empty == DOMAIN m = {}
            untyped == TAG_MSG_TYPE \notin DOMAIN m
            unknown == ~untyped /\ m[TAG_MSG_TYPE] \notin DOMAIN MSG_TYPES
            lacking == /\ ~untyped
                       /\ m[TAG_MSG_TYPE] \in DOMAIN REQUIRED_TAGS
                       /\ ~(REQUIRED_TAGS[m[TAG_MSG_TYPE]] \subseteq DOMAIN m)
        IN  /\ empty => FailedWith("Empty or invalid message format")
            /\ (~empty /\ untyped) => FailedWith("Missing required tag: {} (MsgType)")
            /\ (~empty /\ unknown) =>
                   /\ FailedWith("Unknown message type: {}")
                   /\ result.error_message.value.msg_type = m[TAG_MSG_TYPE]
            /\ (~empty /\ ~untyped /\ ~unknown /\ lacking) =>
                   FailedWith("Missing required tags for {}: {}")
            /\ result.is_valid <=> ~(empty \/ untyped \/ unknown \/ lacking)
            /\ result.is_valid =>
                   /\ result.error_message.is_none
                   /\ result.tag_value_dict = Some(m)

\* C6 witness: a message of the known type "0", which has no required tags,
\* came out valid.
C6_Witness ==
    /\ JustValidated
    /\ result.is_valid
    /\ result.tag_value_dict.value[TAG_MSG_TYPE] = <<"0">>

\* the elements of sequence q, as a set
Range(q) == {q[i] : i \in DOMAIN q}

\* C7 as claimed: a missing-required-tags failure lists exactly the required
\* tags of the type that the parsed mapping lacks, each once, in ascending
\* order whatever the order of the fields of the message.
C7_MissingTagsAscendingAsClaimed ==
    (JustValidated /\ FailedWith("Missing required tags for {}: {}")) =>
        result.error_message.value.tags =
            SortedSeq(REQUIRED_TAGS[WireMapping[TAG_MSG_TYPE]] \ DOMAIN WireMapping)

\* C8 as claimed: an invalid result lacks the mapping only when parsing gave
\* an empty mapping; otherwise it carries the parsed mapping.
C8_PartialMappingAsClaimed ==
    (JustValidated /\ ~result.is_valid) =>
        /\ result.tag_value_dict.is_none <=> DOMAIN WireMapping = {}
        /\ ~result.tag_value_dict.is_none => result.tag_value_dict.value = WireMapping

-----------------------------------------------------------------------------
(* Properties of convert_fix_delimiter.                                    *)

\* convert_fix_delimiter has just returned or raised, called with no
\* declared delimiter
JustDetected == op = "convert_fix_delimiter" /\ declared.is_none

\* the message holds 8=FIX.<digit>.<digit><c>9=<digit> somewhere: some
\* occurrence of c has 8=FIX.<digit>.<digit> right before it and 9=<digit>
\* right after it
HasSignature(message, c) ==
    \E p \in 10..(Len(message) - 3) :
        /\ message[p] = c
        /\ SubSeq(message, p - 9, p - 4) = <<"8", "=", "F", "I", "X", ".">>
        /\ {message[p - 3], message[p - 1], message[p + 3]} \subseteq Digits
        /\ message[p - 2] = "."
        /\ SubSeq(message, p + 1, p + 2) = <<"9", "=">>

\* the candidates in their order of trial: | ^ ~ , ; tab
Candidates == <<"|", "^", "~", ",", ";", "TAB">>

\* C9: the first candidate, in the order | ^ ~ , ; tab, whose signature the
\* message holds is the one replaced by SOH and no other character changes;
\* with the signatures of both | and ^, | is replaced and ^ stays.
C9_DetectionOrder ==
    JustDetected =>
        /\ \A k \in 1..Len(Candidates) :
               (/\ HasSignature(wire, Candidates[k])
                /\ \A j \in 1..(k - 1) : ~HasSignature(wire, Candidates[j])) =>
                   /\ converted.raised = ""
                   /\ Len(converted.value) = Len(wire)
                   /\ \A i \in 1..Len(wire) :
                          converted.value[i] =
                              IF wire[i] = Candidates[k] THEN SOH_CHAR ELSE wire[i]
        /\ (HasSignature(wire, "|") /\ HasSignature(wire, "^")) =>
               /\ ~Contains(converted.value, "|")
               /\ \A i \in 1..Len(wire) : wire[i] = "^" => converted.value[i] = "^"

\* C9 witness: a message with the signatures of both | and ^, the one of ^
\* coming first in the text, has been converted.
C9_Witness ==
    /\ JustDetected
    /\ HasSignature(wire, "|") /\ HasSignature(wire, "^")
    /\ wire[10] = "^"
    /\ converted.raised = ""

\* C10: without a declared delimiter the call raises ValueError exactly when
\* the message holds no candidate's signature and no SOH; with no signature
\* but an SOH it returns the message unchanged.
C10_UnknownDelimiter ==
    JustDetected =>
        LET unsigned == \A k \in 1..Len(Candidates) : ~HasSignature(wire, Candidates[k])
        IN  /\ converted.raised = "ValueError" <=> (unsigned /\ ~Contains(wire, SOH_CHAR))
            /\ converted.raised \in {"", "ValueError"}
            /\ (unsigned /\ Contains(wire, SOH_CHAR)) =>
                   converted = Returned(wire)

\* C10 witness: a non-empty message with no signature and no SOH made the
\* call raise ValueError.
C10_Witness ==
    /\ JustDetected
    /\ Len(wire) > 0
    /\ converted.raised = "ValueError"

\* C10 second case reached: no signature, an SOH, the message returned as is.
C10_UnchangedReached ==
    /\ JustDetected
    /\ Contains(wire, SOH_CHAR)
    /\ \A k \in 1..Len(Candidates) : ~HasSignature(wire, Candidates[k])
    /\ converted = Returned(wire)

\* convert_fix_delimiter has just returned or raised, called with a declared
\* delimiter on a raw message
JustDeclared == op = "convert_fix_delimiter" /\ ~declared.is_none

\* C11: called with a declared delimiter d, convert_fix_delimiter returns the
\* message unchanged when d is SOH; otherwise the result has the length of
\* the message, holds no d, holds SOH wherever the message held d and agrees
\* with the message everywhere else.
C11_DeclaredDelimiter ==
    JustDeclared =>
        /\ converted.raised = ""
        /\ declared.value = SOH_CHAR => converted.value = wire
        /\ declared.value # SOH_CHAR =>
               /\ Len(converted.value) = Len(wire)
               /\ ~Contains(converted.value, declared.value)
               /\ \A i \in 1..Len(wire) :
                      /\ wire[i] = declared.value => converted.value[i] = SOH_CHAR
                      /\ wire[i] # declared.value => converted.value[i] = wire[i]

\* C11 witness: a message holding ^ twice or more and | as well has been
\* converted with ^ declared.
C11_Witness ==
    /\ JustDeclared
    /\ declared.value = "^"
    /\ Len(Positions(wire, "^")) >= 2
    /\ Contains(wire, "|")
    /\ Contains(converted.value, "|")
    /\ converted.value # wire

\* C11 first case reached: SOH declared for a message that holds candidate
\* delimiters, and the message returned as it is.
C11_UnchangedReached ==
    /\ JustDeclared
    /\ declared.value = SOH_CHAR
    /\ Contains(wire, "|")
    /\ converted = Returned(wire)

\* C12: normalising the result of a successful convert_fix_delimiter call
\* once more, with SOH declared, gives that result back.
C12_Idempotent ==
    op = "convert_again" => converted = Returned(wire)

\* C12 witness: the result of the first call still held the signature of a
\* candidate delimiter when it was normalised again.
C12_Witness ==
    /\ op = "convert_again"
    /\ Contains(wire, SOH_CHAR)
    /\ HasSignature(wire, "^")
    /\ converted.raised = ""

-----------------------------------------------------------------------------
(* Properties of parse_message on received texts.                          *)

\* parse_message has just returned for a received text
TextParsed == origin = "input" /\ op = "parse_message" /\ ~parsed.is_none

\* the fragments of a message: the stretches between its delimiter
\* characters, SOH and "|" alike
Fragments(message) ==
    LET P == <<0>> \o SelectSeq([i \in 1..Len(message) |-> i],
                                LAMBDA i : message[i] \in {"SOH", "|"})
                  \o <<Len(message) + 1>>
    IN  [k \in 1..(Len(P) - 1) |-> SubSeq(message, P[k] + 1, P[k + 1] - 1)]

\* the position of the first "=" of a fragment that holds one
FirstEquals(fragment) ==
    CHOOSE i \in 1..Len(fragment) :
        fragment[i] = "=" /\ \A j \in 1..(i - 1) : fragment[j] # "="

\* what stands before and after the first "=" of a fragment
TagTextOf(fragment) == SubSeq(fragment, 1, FirstEquals(fragment) - 1)

ValueOf(fragment) == SubSeq(fragment, FirstEquals(fragment) + 1, Len(fragment))

\* a fragment is well formed when it holds "=" and what stands before the
\* first "=" is an integer for int()
WellFormed(fragment) == Contains(fragment, "=") /\ IntLiteralOk(TagTextOf(fragment))

TagOf(fragment) == IntValue(TagTextOf(fragment))

\* the positions of the well-formed fragments of a message
WellFormedAt(message) ==
    {k \in 1..Len(Fragments(message)) : WellFormed(Fragments(message)[k])}

\* C13 as claimed: every key of the mapping parse_message returns is a
\* positive integer.
C13_PositiveKeysAsClaimed ==
    TextParsed => \A key \in DOMAIN parsed.value : key > 0

\* C14: the keys of the mapping are the tags of the well-formed fragments,
\* and each key maps to what stands after the first "=" of the last
\* well-formed fragment carrying it.
C14_LastFragmentWins ==
    TextParsed =>
        LET F == Fragments(wire)
            W == WellFormedAt(wire)
        IN  /\ DOMAIN parsed.value = {TagOf(F[k]) : k \in W}
            /\ \A k \in W :
                   (\A j \in W : j > k => TagOf(F[j]) # TagOf(F[k])) =>
                       parsed.value[TagOf(F[k])] = ValueOf(F[k])

\* C14 witness: two well-formed fragments carry tag 5 with different
\* values, the later value holding "=", and the later value is the one kept.
C14_Witness ==
    /\ TextParsed
    /\ Len(Fragments(wire)) = 2
    /\ WellFormedAt(wire) = {1, 2}
    /\ TagOf(Fragments(wire)[1]) = 5 /\ TagOf(Fragments(wire)[2]) = 5
    /\ ValueOf(Fragments(wire)[1]) = <<"a">>
    /\ parsed.value[5] = <<"b", "=", "c">>

\* the message made of the well-formed fragments of wire alone
WellFormedOnly ==
    LET F == Fragments(wire)
        kept == SelectSeq([k \in 1..Len(F) |-> k], LAMBDA k : WellFormed(F[k]))
    IN  Join([i \in 1..Len(kept) |-> F[kept[i]]], delimiter)

\* C15: parse_message returns a mapping for every text; it is the mapping
\* the well-formed fragments give without the others, and it is empty
\* exactly when the text holds no well-formed fragment.
C15_MalformedSkipped ==
    (origin = "input" /\ op = "parse_message") =>
        /\ ~parsed.is_none
        /\ parsed.value = parse_message(self, WellFormedOnly)
        /\ DOMAIN parsed.value = {} <=> WellFormedAt(wire) = {}

\* C15 witness: a fragment without "=" stands before a well-formed one,
\* and the mapping holds the entry of the well-formed one.
C15_Witness ==
    /\ TextParsed
    /\ Len(Fragments(wire)) = 2
    /\ Fragments(wire)[1] = <<"a", "b", "c">>
    /\ WellFormedAt(wire) = {2}
    /\ DOMAIN parsed.value = {TagOf(Fragments(wire)[2])}

\* C15 empty case reached: a text of fragments none of which is well
\* formed gave the empty mapping.
C15_EmptyReached ==
    /\ TextParsed
    /\ Len(wire) > 3
    /\ WellFormedAt(wire) = {}
    /\ DOMAIN parsed.value = {}

-----------------------------------------------------------------------------
(* Properties of the calls together.                                       *)

\* C16: every validate_message call, on a text or on None, returns a result
\* (is_valid, error_message, tag_value_dict) and raises nothing, and is_valid
\* is true exactly when there is no error message.
C16_StructuredResult ==
    /\ op # "validate_message_raised"
    /\ op = "validate_message" =>
           /\ result.is_valid \in BOOLEAN
           /\ result.is_valid <=> result.error_message.is_none
           /\ result.is_valid => ~result.tag_value_dict.is_none

\* C16 witness: validate_message was handed None and returned a failure
\* that reports the exception.
C16_Witness ==
    /\ op = "validate_message"
    /\ origin = "nothing"
    /\ ~result.is_valid
    /\ FailedWith("Validation error: {}")
    /\ result.tag_value_dict.is_none

\* C16 valid case reached: a received text was found valid, with no error
\* message.
C16_ValidReached ==
    /\ op = "validate_message"
    /\ origin = "input"
    /\ result.is_valid
    /\ result.error_message.is_none

C18_FieldOrderAsClaimed ==
    JustBuilt =>
        /\ Len(WireFields) >= 4
        /\ TagText(WireFields[1]) = <<"8">>
        /\ TagText(WireFields[2]) = <<"9">>
        /\ TagText(WireFields[3]) = <<"3", "5">>
        /\ TagText(WireFields[Len(WireFields)]) = <<"1", "0">>

\* the message a validator with delimiter delim builds from the arguments
\* and the clock reading of the call
BuiltWith(delim) ==
    create_message([default_version |-> default_version, delimiter |-> delim],
                   call.msg_type, call.fields, CallClock)

\* the two builds give the same fields one by one, body length and checksum
\* among them, and the same text up to the delimiter character
SameButDelimiter ==
    /\ wire = BuiltWith(delimiter)
    /\ Split(BuiltWith(SOH_PRINTABLE), SOH_PRINTABLE) = Split(BuiltWith(SOH), SOH)
    /\ Replace(BuiltWith(SOH_PRINTABLE), SOH_PRINTABLE, SOH) = BuiltWith(SOH)

\* C19 as claimed: whenever no value of fields holds "|" or SOH, the
\* validator with "|" and the validator with SOH build, from the same
\* arguments, messages with the same body length and the same checksum that
\* differ in the delimiter character only.
C19_SameChecksumAsClaimed ==
    (/\ JustBuilt
     /\ TAG_SENDING_TIME \in DOMAIN call.fields
     /\ NoValueHolds(call.fields, SOH_PRINTABLE)
     /\ NoValueHolds(call.fields, SOH)) => SameButDelimiter

\* C19 amended: the same, whenever neither msg_type nor a value of fields
\* holds "|" or SOH, for calls that give tag 52 and for calls that read the
\* same clock.
C19_SameChecksum ==
    (JustBuilt /\ NoArgumentHolds(SOH_PRINTABLE) /\ NoArgumentHolds(SOH)) =>
        SameButDelimiter

\* C19 witness: the validator with "|" has built a message of several
\* fields from fields that give tag 52 and hold no delimiter character.
C19_Witness ==
    /\ JustBuilt
    /\ delimiter = SOH_PRINTABLE
    /\ NoArgumentHolds(SOH_PRINTABLE) /\ NoArgumentHolds(SOH)
    /\ TAG_SENDING_TIME \in DOMAIN call.fields
    /\ Len(WireFields) >= 5
    /\ BuiltWith(SOH) # wire

\* validate_message has just returned for a message built by create_message
BuiltThenValidated == origin = "built" /\ op = "validate_message"

\* msg_type is a code of MSG_TYPES and tag 35 of fields, if given, is msg_type
KnownTypeGiven ==
    /\ call.msg_type \in DOMAIN MSG_TYPES
    /\ TAG_MSG_TYPE \in DOMAIN call.fields => call.fields[TAG_MSG_TYPE] = call.msg_type

\* valid, and tag 35 of the returned mapping is msg_type
ValidWithType ==
    /\ result.is_valid
    /\ ~result.tag_value_dict.is_none
    /\ result.tag_value_dict.value[TAG_MSG_TYPE] = call.msg_type

\* C20 as claimed: a message built for a type of MSG_TYPES from fields whose
\* values hold no SOH, whose tag 35 is absent or msg_type and whose keys
\* include the required tags of the type validates, with tag 35 = msg_type.
C20_BuildThenValidateAsClaimed ==
    (/\ BuiltThenValidated
     /\ KnownTypeGiven
     /\ NoValueHolds(call.fields, SOH)
     /\ call.msg_type \in DOMAIN REQUIRED_TAGS =>
            REQUIRED_TAGS[call.msg_type] \subseteq DOMAIN call.fields) => ValidWithType

\* C20 amended: the same for fields whose values hold neither SOH nor "|"
\* and whose keys include the required tags of the type other than 35 and
\* 52, which create_message fills in.
C20_BuildThenValidate ==
    (/\ BuiltThenValidated
     /\ KnownTypeGiven
     /\ NoValueHolds(call.fields, SOH)
     /\ NoValueHolds(call.fields, SOH_PRINTABLE)
     /\ call.msg_type \in DOMAIN REQUIRED_TAGS =>
            REQUIRED_TAGS[call.msg_type] \ {TAG_MSG_TYPE, TAG_SENDING_TIME}
                \subseteq DOMAIN call.fields) => ValidWithType

\* C20 witness: a Logon message built from fields that give its required
\* tags and a value with "=" has been validated and found valid.
C20_Witness ==
    /\ BuiltThenValidated
    /\ call.msg_type = <<"A">>
    /\ TAG_MSG_TYPE \notin DOMAIN call.fields
    /\ NoValueHolds(call.fields, SOH) /\ NoValueHolds(call.fields, SOH_PRINTABLE)
    /\ \E tag \in DOMAIN call.fields : call.fields[tag] = <<"u", "=", "v">>
    /\ result.is_valid

====
